---- MODULE Spec2Model ----
(***************************************************************************)
(* Model of cad/extract_keys_v4.py: the key-position converter.            *)
(*                                                                         *)
(* Number representation.  A coordinate literal of the text blocks has at  *)
(* most three decimals; a source-space value is held as an integer number  *)
(* of 1/10000 SVG units, so that the mean of two literals is exact.  A     *)
(* millimetre value rounded to two decimals is held as an integer number   *)
(* of 1/100 mm.  An unrounded product with SCALE is held as floor and      *)
(* remainder of the exact quotient.  The doubles of the program differ     *)
(* from these exact values by a relative 1e-16, which changes the result   *)
(* of round() only when the exact value is a rounding tie; there round2    *)
(* allows both neighbours.                                                 *)
(***************************************************************************)
EXTENDS Integers, Sequences, FiniteSets, TLC

VARIABLES svg_rects, choc_rects, pc, i, keys, chocs, stdout, exc

vars == <<svg_rects, choc_rects, pc, i, keys, chocs, stdout, exc>>

\* ------------------------------------------------------------------------
\* Text: a block is a sequence of lines, a line the sequence of its
\* whitespace-separated tokens (str.split()), a token the sequence of its
\* comma-separated substrings (str.split(',')).  A substring is numeric,
\* with the value float() gives it, or not numeric.

Num(v) == [numeric |-> TRUE, value |-> v]

NonNum == [numeric |-> FALSE, value |-> 0]

Lines(raw) ==
    [j \in DOMAIN raw |->
        [t \in DOMAIN raw[j] |->
            [c \in DOMAIN raw[j][t] |-> Num(raw[j][t][c])]]]

\* SCALE = 19.05 / 54.032, as the fraction 19050 / 54032.
SCALE == [num |-> 19050, den |-> 54032]

\* Y_ORIGIN = 380.456, in 1/10000 SVG units.
Y_ORIGIN == 3804560

\* The row pitch of the MX sort key, 19 mm.
ROW_MM == 19

\* The literal svg_rects of the source, in 1/10000 SVG units.
RefSvgRects ==
    Lines(<<
       <<<<6149660, 2514920>>, <<5752820, 2911760>>>>,
       <<<<4799500, 1975240>>, <<4402660, 2372080>>>>,
       <<<<4259500, 1435240>>, <<3862660, 1832080>>>>,
       <<<<4259500, 2514920>>, <<3862660, 2911760>>>>,
       <<<<4799500, 1435240>>, <<4402660, 1832080>>>>,
       <<<<6689660, 2514920>>, <<6292820, 2911760>>>>,
       <<<<6689660, 1975240>>, <<6292820, 2372080>>>>,
       <<<<8849340, 1975240>>, <<8452500, 2372080>>>>,
       <<<<8309340, 1975240>>, <<7912500, 2372080>>>>,
       <<<<8309340, 2514920>>, <<7912500, 2911760>>>>,
       <<<<7769340, 1975240>>, <<7372500, 2372080>>>>,
       <<<<7769340, 894920>>, <<7372500, 1291760>>>>,
       <<<<6689660, 1435240>>, <<6292820, 1832080>>>>,
       <<<<7229660, 1435240>>, <<6832820, 1832080>>>>,
       <<<<7769340, 1435240>>, <<7372500, 1832080>>>>,
       <<<<7769340, 2514920>>, <<7372500, 2911760>>>>,
       <<<<8309340, 1435240>>, <<7912500, 1832080>>>>,
       <<<<6149660, 1975240>>, <<5752820, 2372080>>>>,
       <<<<8849340, 2514920>>, <<8452500, 2911760>>>>,
       <<<<7229660, 1975240>>, <<6832820, 2372080>>>>,
       <<<<2909660, 1975240>>, <<2512820, 2372080>>>>,
       <<<<1289660, 2514920>>, <<892820, 2911760>>>>,
       <<<<749340, 1975240>>, <<352500, 2372080>>>>,
       <<<<3449660, 1435240>>, <<3052820, 1832080>>>>,
       <<<<4259500, 1975240>>, <<3862660, 2372080>>>>,
       <<<<749340, 894920>>, <<352500, 1291760>>>>,
       <<<<2909660, 2514920>>, <<2512820, 2911760>>>>,
       <<<<2909660, 1435240>>, <<2512820, 1832080>>>>,
       <<<<749340, 2514920>>, <<352500, 2911760>>>>,
       <<<<3449660, 2514920>>, <<3052820, 2911760>>>>,
       <<<<1289660, 1975240>>, <<892820, 2372080>>>>,
       <<<<6149660, 1435240>>, <<5752820, 1832080>>>>,
       <<<<1289660, 894920>>, <<892820, 1291760>>>>,
       <<<<3449660, 1975240>>, <<3052820, 2372080>>>>,
       <<<<4799500, 894920>>, <<4402660, 1291760>>>>,
       <<<<1829340, 2514920>>, <<1432500, 2911760>>>>,
       <<<<5339500, 1435240>>, <<4942660, 1832080>>>>,
       <<<<749340, 1435240>>, <<352500, 1832080>>>>,
       <<<<5339500, 2514920>>, <<4942660, 2911760>>>>,
       <<<<1829340, 1975240>>, <<1432500, 2372080>>>>,
       <<<<1829340, 894920>>, <<1432500, 1291760>>>>,
       <<<<1289660, 1435240>>, <<892820, 1832080>>>>,
       <<<<2369660, 2514920>>, <<1972820, 2911760>>>>,
       <<<<4799500, 2514920>>, <<4402660, 2911760>>>>,
       <<<<1829340, 1435240>>, <<1432500, 1832080>>>>,
       <<<<2369660, 1435240>>, <<1972820, 1832080>>>>,
       <<<<2369660, 1975240>>, <<1972820, 2372080>>>>,
       <<<<8849340, 1435240>>, <<8452500, 1832080>>>>,
       <<<<5339500, 1975240>>, <<4942660, 2372080>>>>,
       <<<<7229660, 2514920>>, <<6832820, 2911760>>>> >>)

\* The literal choc_rects of the source.
RefChocRects ==
    Lines(<<
       <<<<9023990, 1288950>>, <<9358480, 897740>>>>,
       <<<<10102290, 1288950>>, <<10436780, 897740>>>>,
       <<<<9563990, 1288950>>, <<9898480, 897740>>>>,
       <<<<7943710, 1288950>>, <<8278210, 897740>>>>,
       <<<<8483990, 1288950>>, <<8818480, 897740>>>> >>)


\* The literal thumb_data of the source; no loop reads it.
thumb_data ==
    Lines(<<
       <<<<5689270, 1054980>>, <<5887740, 711340>>, <<5544100, 512860>>, <<5345630, 856510>>>>,
       <<<<6296310, 1252500>>, <<6431790, 879500>>, <<6058800, 744020>>, <<5923310, 1117010>>>>,
       <<<<6953690, 1275600>>, <<6556850, 878760>>>>,
       <<<<3488570, 1043670>>, <<3290100, 700030>>, <<3633740, 501550>>, <<3832210, 845190>>>>,
       <<<<2905530, 1265180>>, <<2770050, 892190>>, <<3143040, 756700>>, <<3278530, 1129700>>>>,
       <<<<2248150, 1288290>>, <<2644990, 891450>>>> >>)
\* ------------------------------------------------------------------------
\* Inputs of the model: blocks of at most MaxMxLines / MaxChocLines lines
\* drawn from the line sets below, and the blocks of the source.

MaxMxLines == 2

MaxChocLines == 2

\* "614.966,251.492 575.282,291.176", the first line of svg_rects.
LineA == Lines(<< << <<6149660, 2514920>>, <<5752820, 2911760>> >> >>)[1]

\* "74.934,197.524 35.25,237.208": one row further than LineA, smaller x.
LineB == Lines(<< << <<749340, 1975240>>, <<352500, 2372080>> >> >>)[1]

\* "7.016,225.73 47.016,265.73": x_mm is the tie 9.525, y_mm = 47.5 is the
\* tie 2.5 of the row bucket; same row as LineA, smaller x, larger y_mm.
LineC == Lines(<< << <<70160, 2257300>>, <<470160, 2657300>> >> >>)[1]

\* A blank line.
Blank == << >>

\* "614.966,251.492"
OneToken == Lines(<< << <<6149660, 2514920>> >> >>)[1]

\* "1,2 3,4 5,6"
ThreeTokens == Lines(<< << <<10000, 20000>>, <<30000, 40000>>, <<50000, 60000>> >> >>)[1]

\* "a,1 2,3"
NonNumeric == << <<NonNum, Num(10000)>>, <<Num(20000), Num(30000)>> >>

\* "1,2,3 4,5"
ThreeCoords == Lines(<< << <<10000, 20000, 30000>>, <<40000, 50000>> >> >>)[1]

\* "1 a,2"
OneCoordNonNumeric == << <<Num(10000)>>, <<NonNum, Num(20000)>> >>

\* "1 2"
OneCoord == Lines(<< << <<10000>>, <<20000>> >> >>)[1]

\* "902.399,128.895 935.848,89.774", the first line of choc_rects.
ChocX == Lines(<< << <<9023990, 1288950>>, <<9358480, 897740>> >> >>)[1]

\* "794.371,74.895 827.821,35.774": smaller x than ChocX, one row further.
ChocY == Lines(<< << <<7943710, 748950>>, <<8278210, 357740>> >> >>)[1]

\* "902.399,182.895 935.848,143.774": the x of ChocX, one row nearer.
ChocZ == Lines(<< << <<9023990, 1828950>>, <<9358480, 1437740>> >> >>)[1]

MxLineSet ==
    {LineA, LineB, LineC, Blank, OneToken, ThreeTokens, NonNumeric,
     ThreeCoords, OneCoordNonNumeric}

ChocLineSet == {ChocX, ChocY, ChocZ, OneToken, NonNumeric, OneCoord}

\* block.strip().split('\n'): at least one line, and the first and the last
\* line are blank only when the whole block is.
Stripped(b) == Len(b) = 1 \/ (b[1] # Blank /\ b[Len(b)] # Blank)

Blocks(lineSet, maxLines) ==
    {b \in UNION {[1..n -> lineSet] : n \in 1..maxLines} : Stripped(b)}

\* ------------------------------------------------------------------------
\* Arithmetic.

RECURSIVE GCD(_, _)
GCD(a, b) == IF b = 0 THEN a ELSE GCD(b, a % b)

\* c * SCALE for c in 1/10000 SVG units is c * num / (den * 100) hundredths
\* of a millimetre; MmNum / MmDen is that fraction in lowest terms.
MmNum == SCALE.num \div GCD(SCALE.num, SCALE.den * 100)

MmDen == (SCALE.den * 100) \div GCD(SCALE.num, SCALE.den * 100)

\* f"{SCALE:.4f}", in 1/10000.
scale_4f ==
    LET n == SCALE.num * 10000
        q == n \div SCALE.den
        r == n % SCALE.den
    IN  IF 2 * r < SCALE.den THEN q ELSE q + 1

\* cx * SCALE with the four-decimal scale of the report, 0.3526.
times_scale_4f(c) ==
    LET g == GCD(scale_4f, 1000000)
        n == scale_4f \div g
        d == 1000000 \div g
    IN  [q |-> (c \div d) * n + ((c % d) * n) \div d,
         r |-> ((c % d) * n) % d,
         d |-> d]

\* cx * SCALE: the exact product in 1/100 mm, as q + r/d with 0 <= r < d.
times_scale(c) ==
    [q |-> (c \div MmDen) * MmNum + ((c % MmDen) * MmNum) \div MmDen,
     r |-> ((c % MmDen) * MmNum) % MmDen,
     d |-> MmDen]

\* round(x, 1): the nearest 1/10, in 1/100.
round1(m) ==
    IF m.q % 10 < 5 THEN {m.q - (m.q % 10)} ELSE {m.q - (m.q % 10) + 10}

\* round(x, 2): the nearest 1/100; at an exact tie the double product lies
\* on either side of it, so both neighbours are possible results.
round2(m) ==
    IF 2 * m.r < m.d THEN {m.q}
    ELSE IF 2 * m.r > m.d THEN {m.q + 1}
    ELSE {m.q, m.q + 1}

\* k['y_mm'] / 19, for y_mm = k/100: the exact quotient as q + r/d.
over_row(k) ==
    [q |-> k \div (ROW_MM * 100), r |-> k % (ROW_MM * 100), d |-> ROW_MM * 100]

\* round(x, 0): the nearest integer, a tie to the even one (a tie x is
\* n + 0.5 with y_mm = 19n + 9.5, both exact doubles).
round0(m) ==
    IF 2 * m.r < m.d THEN m.q
    ELSE IF 2 * m.r > m.d THEN m.q + 1
    ELSE IF m.q % 2 = 0 THEN m.q ELSE m.q + 1

\* ------------------------------------------------------------------------
\* parse_rect

None == [kind |-> "None", cx |-> 0, cy |-> 0, exc |-> ""]

\* The exception caught and the line dropped.
RaiseSwallowed(e) == None

Raise(e) == [kind |-> "raise", cx |-> 0, cy |-> 0, exc |-> e]

FloatError == "ValueError: could not convert string to float"

NotEnough == "ValueError: not enough values to unpack (expected 2, got 1)"

TooMany == "ValueError: too many values to unpack (expected 2)"

\* a, b = map(float, tok): float() is applied lazily, item by item, and the
\* unpacking asks for a third item to find out that there are too many.
unpack2(tok) ==
    IF ~tok[1].numeric THEN [exc |-> FloatError, a |-> 0, b |-> 0]
    ELSE IF Len(tok) = 1 THEN [exc |-> NotEnough, a |-> 0, b |-> 0]
    ELSE IF ~tok[2].numeric THEN [exc |-> FloatError, a |-> 0, b |-> 0]
    ELSE IF Len(tok) > 2
         THEN IF ~tok[3].numeric
              THEN [exc |-> FloatError, a |-> 0, b |-> 0]
              ELSE [exc |-> TooMany, a |-> 0, b |-> 0]
    ELSE [exc |-> "", a |-> tok[1].value, b |-> tok[2].value]

\* parse_rect that accepts a line of two or more tokens.
parse_rect_at_least2(parts) ==
    IF Len(parts) < 2 THEN None
    ELSE LET p1 == unpack2(parts[1])
             p2 == unpack2(parts[2])
         IN  IF p1.exc # "" THEN Raise(p1.exc)
             ELSE IF p2.exc # "" THEN Raise(p2.exc)
             ELSE [kind |-> "center",
                   cx |-> (p1.a + p2.a) \div 2,
                   cy |-> (p1.b + p2.b) \div 2,
                   exc |-> ""]

parse_rect(parts) ==
    IF Len(parts) # 2 THEN None
    ELSE LET p1 == unpack2(parts[1])
             p2 == unpack2(parts[2])
         IN  IF p1.exc # "" THEN Raise(p1.exc)
             ELSE IF p2.exc # "" THEN Raise(p2.exc)
             ELSE [kind |-> "center",
                   cx |-> (p1.a + p2.a) \div 2,
                   cy |-> (p1.b + p2.b) \div 2,
                   exc |-> ""]

\* ------------------------------------------------------------------------
\* The loops over the two blocks.

x_mm_of(cx) == round2(times_scale(cx))

\* y_mm without the flip about Y_ORIGIN.
y_mm_unflipped(cy) == round2(times_scale(cy))

y_mm_of(cy) == round2(times_scale(Y_ORIGIN - cy))

\* The dict appended for a center; a set because of round2.
key_position(type, cx, cy) ==
    {[type |-> type, x_mm |-> xm, y_mm |-> ym, svg_x |-> cx, svg_y |-> cy] :
        xm \in x_mm_of(cx), ym \in y_mm_of(cy)}

\* The MX loop with the thumb block wired in.
mx_lines_thumb == svg_rects \o thumb_data

\* The lines each loop iterates over.
mx_lines == svg_rects

choc_lines == choc_rects

ParseMxLine ==
    /\ pc = "mx"
    /\ LET result == parse_rect(mx_lines[i]) IN
        \/ /\ result.kind = "raise"
           /\ pc' = "aborted"
           /\ exc' = result.exc
           /\ UNCHANGED <<i, keys>>
        \/ /\ result.kind # "raise"
           /\ \/ result.kind = "None" /\ keys' = keys
              \/ /\ result.kind = "center"
                 /\ \E e \in key_position("MX", result.cx, result.cy) :
                        keys' = Append(keys, e)
           /\ IF i < Len(mx_lines)
              THEN i' = i + 1 /\ pc' = pc
              ELSE i' = 1 /\ pc' = "choc"
           /\ exc' = exc
    /\ UNCHANGED <<svg_rects, choc_rects, chocs, stdout>>

ParseChocLine ==
    /\ pc = "choc"
    /\ LET result == parse_rect(choc_lines[i]) IN
        \/ /\ result.kind = "raise"
           /\ pc' = "aborted"
           /\ exc' = result.exc
           /\ UNCHANGED <<i, chocs>>
        \/ /\ result.kind # "raise"
           /\ \/ result.kind = "None" /\ chocs' = chocs
              \/ /\ result.kind = "center"
                 /\ \E e \in key_position("Choc", result.cx, result.cy) :
                        chocs' = Append(chocs, e)
           /\ IF i < Len(choc_lines)
              THEN i' = i + 1 /\ pc' = pc
              ELSE i' = 1 /\ pc' = "sort_keys"
           /\ exc' = exc
    /\ UNCHANGED <<svg_rects, choc_rects, keys, stdout>>

\* ------------------------------------------------------------------------
\* list.sort(key=...): a stable sort on the key tuples.

RECURSIVE tuple_less(_, _)
tuple_less(a, b) ==
    IF a = << >> THEN b # << >>
    ELSE IF b = << >> THEN FALSE
    ELSE IF Head(a) # Head(b) THEN Head(a) < Head(b)
    ELSE tuple_less(Tail(a), Tail(b))

\* s is sorted on its keys; e goes behind every element not greater than it.
RECURSIVE insert(_, _)
insert(s, e) ==
    IF s = << >> THEN <<e>>
    ELSE IF tuple_less(e[1], Head(s)[1]) THEN <<e>> \o s
    ELSE <<Head(s)>> \o insert(Tail(s), e)

RECURSIVE sort_prefix(_, _)
sort_prefix(s, n) ==
    IF n = 0 THEN << >> ELSE insert(sort_prefix(s, n - 1), s[n])

\* ks[j] is the key of s[j].
list_sort(s, ks) ==
    LET decorated == [j \in 1..Len(s) |-> <<ks[j], s[j]>>]
        sorted == sort_prefix(decorated, Len(s))
    IN  [j \in 1..Len(s) |-> sorted[j][2]]

\* The MX key without the row bucket.
mx_sort_key_y(k) == <<k.y_mm, k.x_mm>>

\* lambda k: (round(k['y_mm']/19, 0), k['x_mm'])
mx_sort_key(k) == <<round0(over_row(k.y_mm)), k.x_mm>>

\* The Choc key copied from the MX one.
choc_sort_key_row(k) == <<round0(over_row(k.y_mm)), k.x_mm>>

\* lambda k: k['x_mm']
choc_sort_key(k) == <<k.x_mm>>

SortKeys ==
    /\ pc = "sort_keys"
    /\ keys' = list_sort(keys, [j \in 1..Len(keys) |-> mx_sort_key(keys[j])])
    /\ pc' = "sort_chocs"
    /\ UNCHANGED <<svg_rects, choc_rects, i, chocs, stdout, exc>>

SortChocs ==
    /\ pc = "sort_chocs"
    /\ chocs' = list_sort(chocs, [j \in 1..Len(chocs) |-> choc_sort_key(chocs[j])])
    /\ pc' = "emit"
    /\ UNCHANGED <<svg_rects, choc_rects, i, keys, stdout, exc>>

\* ------------------------------------------------------------------------
\* The report and its single write.

\* The report with total taken from the MX list alone.
output_total_mx ==
    [info |-> "OrthBall V1 key positions extracted from v4 SVG",
     scale |-> scale_4f,
     mx_keys |-> keys,
     choc_keys |-> chocs,
     total_mx |-> Len(keys),
     total_choc |-> Len(chocs),
     total |-> Len(keys)]

output ==
    [info |-> "OrthBall V1 key positions extracted from v4 SVG",
     scale |-> scale_4f,
     mx_keys |-> keys,
     choc_keys |-> chocs,
     total_mx |-> Len(keys),
     total_choc |-> Len(chocs),
     total |-> Len(keys) + Len(chocs)]

\* print(json.dumps(output, indent=2)): one document on standard output.
Emit ==
    /\ pc = "emit"
    /\ stdout' = Append(stdout, output)
    /\ pc' = "done"
    /\ UNCHANGED <<svg_rects, choc_rects, i, keys, chocs, exc>>

\* ------------------------------------------------------------------------

Init ==
    /\ svg_rects \in Blocks(MxLineSet, MaxMxLines) \cup {RefSvgRects}
    /\ choc_rects \in Blocks(ChocLineSet, MaxChocLines) \cup {RefChocRects}
    /\ pc = "mx"
    /\ i = 1
    /\ keys = << >>
    /\ chocs = << >>
    /\ stdout = << >>
    /\ exc = ""

Next ==
    \/ ParseMxLine
    \/ ParseChocLine
    \/ SortKeys
    \/ SortChocs
    \/ Emit

Spec == Init /\ [][Next]_vars

\* ------------------------------------------------------------------------
\* Vocabulary of the properties.

\* A line "x1,y1 x2,y2": two tokens of two numeric substrings each.
ValidLine(l) ==
    /\ Len(l) = 2
    /\ \A t \in 1..2 : Len(l[t]) = 2 /\ l[t][1].numeric /\ l[t][2].numeric

AllNumeric(l) == \A t \in 1..Len(l) : \A c \in 1..Len(l[t]) : l[t][c].numeric

\* Two tokens, and a substring that is not a number.
TwoTokenNonNumeric(l) == Len(l) = 2 /\ ~AllNumeric(l)

\* The center of a valid line.
LineCenter(l) ==
    <<(l[1][1].value + l[2][1].value) \div 2,
      (l[1][2].value + l[2][2].value) \div 2>>

EntryCenter(e) == <<e.svg_x, e.svg_y>>

\* The row bucket round(y_mm / 19, 0) of an entry.
RowBucket(e) == round0(over_row(e.y_mm))

\* cents (1/100 mm) is c * SCALE (c in 1/10000 SVG units) rounded to two
\* decimals: no hundredth is nearer to the exact product.
IsRounded2(cents, c) ==
    LET m == times_scale(c)
    IN  \/ cents = m.q /\ 2 * m.r <= m.d
        \/ cents = m.q + 1 /\ 2 * m.r >= m.d

\* k / SCALE for k in 1/100 mm: the exact quotient in 1/10000 SVG units,
\* as q + r/d with 0 <= r < d.
over_scale(k) ==
    [q |-> (k \div MmNum) * MmDen + ((k % MmNum) * MmDen) \div MmNum,
     r |-> ((k % MmNum) * MmDen) % MmNum,
     d |-> MmNum]

\* |m - c| < tol, for m = q + r/d and integers c, tol.
Within(m, c, tol) ==
    /\ m.q - c <= tol - 1
    /\ IF m.r = 0 THEN m.q - c >= 1 - tol ELSE m.q - c >= 0 - tol

\* The round trip of an entry: cx' = x_mm / SCALE and
\* cy' = Y_ORIGIN - y_mm / SCALE are within tol/10000 of svg_x and svg_y.
RoundTrip(e, tol) ==
    /\ Within(over_scale(e.x_mm), e.svg_x, tol)
    /\ Within(over_scale(e.y_mm), Y_ORIGIN - e.svg_y, tol)

\* The line the next step of a loop parses, if a loop is running.
CurrentLine ==
    IF pc = "mx" THEN {svg_rects[i]}
    ELSE IF pc = "choc" THEN {choc_rects[i]}
    ELSE {}

IsReference == svg_rects = RefSvgRects /\ choc_rects = RefChocRects

Seq2Set(s) == {s[j] : j \in 1..Len(s)}

\* The entries of list s are, with multiplicity, the centers of the valid
\* lines of block b.
OnePerValidLine(s, b) ==
    /\ \A k \in 1..Len(s) :
           \E j \in 1..Len(b) :
               ValidLine(b[j]) /\ LineCenter(b[j]) = EntryCenter(s[k])
    /\ \A j \in 1..Len(b) :
           ValidLine(b[j]) =>
               Cardinality({k \in 1..Len(s) :
                               EntryCenter(s[k]) = LineCenter(b[j])})
               = Cardinality({n \in 1..Len(b) :
                               /\ ValidLine(b[n])
                               /\ LineCenter(b[n]) = LineCenter(b[j])})

\* ------------------------------------------------------------------------
\* C1: in every report written, total = total_mx + total_choc, total_mx is
\* the number of entries of mx_keys and total_choc that of choc_keys.
C1_TotalIsSum ==
    \A j \in 1..Len(stdout) :
        /\ stdout[j].total = stdout[j].total_mx + stdout[j].total_choc
        /\ stdout[j].total_mx = Len(stdout[j].mx_keys)
        /\ stdout[j].total_choc = Len(stdout[j].choc_keys)

\* A report with entries in both lists and skipped lines in both blocks.
C1_Witness ==
    /\ pc = "done"
    /\ Len(stdout) = 1
    /\ stdout[1].total_mx > 0 /\ stdout[1].total_mx < Len(svg_rects)
    /\ stdout[1].total_choc > 0 /\ stdout[1].total_choc < Len(choc_rects)

\* C2: in the emitted mx_keys, of two consecutive entries the first has the
\* strictly smaller row bucket, or the same row bucket and x_mm not greater.
C2_MxSorted ==
    \A j \in 1..Len(stdout) :
        \A k \in 1..(Len(stdout[j].mx_keys) - 1) :
            LET a == stdout[j].mx_keys[k]
                b == stdout[j].mx_keys[k + 1]
            IN  \/ RowBucket(a) < RowBucket(b)
                \/ RowBucket(a) = RowBucket(b) /\ a.x_mm <= b.x_mm

\* Two MX lines of one row emitted in the reverse of their input order:
\* the entry of larger y_mm has the smaller x_mm and comes first.
C2_Witness ==
    /\ pc = "done"
    /\ svg_rects = <<LineA, LineC>>
    /\ Len(stdout[1].mx_keys) = 2
    /\ EntryCenter(stdout[1].mx_keys[1]) = LineCenter(LineC)
    /\ EntryCenter(stdout[1].mx_keys[2]) = LineCenter(LineA)
    /\ stdout[1].mx_keys[1].y_mm > stdout[1].mx_keys[2].y_mm

\* C3: in the emitted choc_keys x_mm never decreases from an entry to the
\* next, whatever the row buckets are, and entries of equal x_mm keep the
\* order of their lines, whatever their y_mm.
C3_ChocSorted ==
    \A j \in 1..Len(stdout) :
        \A k \in 1..(Len(stdout[j].choc_keys) - 1) :
            LET a == stdout[j].choc_keys[k]
                b == stdout[j].choc_keys[k + 1]
            IN  /\ a.x_mm <= b.x_mm
                /\ (a.x_mm = b.x_mm /\ a # b) =>
                       \E p, q \in 1..Len(choc_rects) :
                           /\ p < q
                           /\ ValidLine(choc_rects[p])
                           /\ ValidLine(choc_rects[q])
                           /\ LineCenter(choc_rects[p]) = EntryCenter(a)
                           /\ LineCenter(choc_rects[q]) = EntryCenter(b)

\* Two Choc lines emitted with x_mm increasing and the row bucket
\* decreasing.
C3_Witness ==
    /\ pc = "done"
    /\ choc_rects = <<ChocX, ChocY>>
    /\ Len(stdout[1].choc_keys) = 2
    /\ stdout[1].choc_keys[1].x_mm < stdout[1].choc_keys[2].x_mm
    /\ RowBucket(stdout[1].choc_keys[1]) > RowBucket(stdout[1].choc_keys[2])

\* What a loop does with a line of a token count other than 2: nothing is
\* appended, nothing is raised, and the loop goes on to the next line.
SkippedSilently(list, last, after) ==
    /\ list' = list
    /\ exc' = ""
    /\ stdout' = stdout
    /\ IF i < last THEN pc' = pc /\ i' = i + 1 ELSE pc' = after

\* C4: a line of zero, one, three or more tokens is skipped silently, and
\* the rest of the block is still processed; a block of one valid line and
\* one single-token line gives exactly one KeyPosition.
C4_WrongTokenCountSkipped ==
    [][ /\ (pc = "mx" /\ Len(svg_rects[i]) # 2) =>
               SkippedSilently(keys, Len(svg_rects), "choc")
        /\ (pc = "choc" /\ Len(choc_rects[i]) # 2) =>
               SkippedSilently(chocs, Len(choc_rects), "sort_keys")
        /\ ( /\ pc = "mx" /\ pc' = "choc"
             /\ Len(svg_rects) = 2
             /\ \E v, w \in 1..2 :
                    /\ ValidLine(svg_rects[v])
                    /\ Len(svg_rects[w]) = 1 ) =>
               Len(keys') = 1
      ]_vars

\* A report of one MX entry from the block of a single-token line followed
\* by a valid line.
C4_Witness ==
    /\ pc = "done"
    /\ Len(svg_rects) = 2
    /\ Len(svg_rects[1]) = 1
    /\ ValidLine(svg_rects[2])
    /\ stdout[1].total_mx = 1

\* C5: when a line of the MX or the Choc block has two tokens and a
\* substring that is not a number, nothing is ever written and the run
\* never gets past the loops; the step on such a line aborts the run with a
\* ValueError (the one of float() when both tokens have two substrings);
\* standard output holds a report only in the final state of a run without
\* error.
C5_NoPartialOutput ==
    /\ []( ( \E l \in Seq2Set(svg_rects) \cup Seq2Set(choc_rects) :
                 TwoTokenNonNumeric(l) ) =>
               stdout = << >> /\ pc \in {"mx", "choc", "aborted"} )
    /\ []( /\ pc = "aborted" => stdout = << >> /\ exc # ""
           /\ stdout # << >> => pc = "done" /\ exc = "" /\ Len(stdout) = 1 )
    /\ [][ \A l \in CurrentLine :
               TwoTokenNonNumeric(l) =>
                   /\ pc' = "aborted"
                   /\ exc' \in {FloatError, NotEnough, TooMany}
                   /\ (Len(l[1]) = 2 /\ Len(l[2]) = 2) => exc' = FloatError
                   /\ stdout' = << >>
                   /\ keys' = keys /\ chocs' = chocs
         ]_vars

\* A run aborted by float() in the Choc block, after MX entries were made.
C5_Witness ==
    /\ pc = "aborted"
    /\ exc = FloatError
    /\ keys # << >>
    /\ NonNumeric \in Seq2Set(choc_rects)
    /\ stdout = << >>

\* C6: on a successful run mx_keys holds one entry per valid line of the MX
\* block and choc_keys one per valid line of the Choc block, nothing
\* dropped, duplicated or taken from the thumb block, and every entry has
\* the type of its list.
C6_OnePerValidLine ==
    pc = "done" =>
        /\ Len(stdout) = 1
        /\ OnePerValidLine(stdout[1].mx_keys, svg_rects)
        /\ OnePerValidLine(stdout[1].choc_keys, choc_rects)
        /\ \A e \in Seq2Set(stdout[1].mx_keys) : e.type = "MX"
        /\ \A e \in Seq2Set(stdout[1].choc_keys) : e.type = "Choc"
        /\ stdout[1].total_mx =
               Cardinality({j \in 1..Len(svg_rects) : ValidLine(svg_rects[j])})
        /\ stdout[1].total_choc =
               Cardinality({j \in 1..Len(choc_rects) : ValidLine(choc_rects[j])})

\* The report of the blocks of the source: 50 MX and 5 Choc entries.
C6_Witness ==
    /\ pc = "done"
    /\ IsReference
    /\ stdout[1].total_mx = 50
    /\ stdout[1].total_choc = 5

\* The entry e is the KeyPosition of the valid line l.
IsKeyPosition(e, l, type) ==
    /\ e.type = type
    /\ 2 * e.svg_x = l[1][1].value + l[2][1].value
    /\ 2 * e.svg_y = l[1][2].value + l[2][2].value
    /\ IsRounded2(e.x_mm, e.svg_x)
    /\ IsRounded2(e.y_mm, Y_ORIGIN - e.svg_y)

\* C7: the step on a valid line "x1,y1 x2,y2" appends one entry with
\* svg_x = (x1+x2)/2 and svg_y = (y1+y2)/2 unrounded, x_mm = svg_x * SCALE
\* and y_mm = (Y_ORIGIN - svg_y) * SCALE rounded to two decimals; in the MX
\* and in the Choc loop alike.
C7_KeyPosition ==
    [][ /\ (pc = "mx" /\ ValidLine(svg_rects[i])) =>
               /\ Len(keys') = Len(keys) + 1
               /\ SubSeq(keys', 1, Len(keys)) = keys
               /\ IsKeyPosition(keys'[Len(keys')], svg_rects[i], "MX")
        /\ (pc = "choc" /\ ValidLine(choc_rects[i])) =>
               /\ Len(chocs') = Len(chocs) + 1
               /\ SubSeq(chocs', 1, Len(chocs)) = chocs
               /\ IsKeyPosition(chocs'[Len(chocs')], choc_rects[i], "Choc")
      ]_vars

\* Both loops have appended an entry; the MX one is that of the tie line,
\* the Choc one has a center with four decimals.
C7_Witness ==
    /\ pc = "sort_keys"
    /\ svg_rects = <<LineC>>
    /\ choc_rects = <<ChocX>>
    /\ Len(keys) = 1 /\ keys[1].svg_x = 270160
    /\ Len(chocs) = 1 /\ chocs[1].svg_x = 9191235

\* The first MX line is LineA and its entry is the first of keys.
LineAParsed ==
    /\ pc \in {"mx", "choc"}
    /\ svg_rects[1] = LineA
    /\ keys # << >>

\* C8, as stated: the line "614.966,251.492 575.282,291.176" yields center
\* (595.124, 271.334), x_mm = 209.84 and y_mm = 38.48.
C8_Original ==
    LineAParsed =>
        /\ EntryCenter(keys[1]) = <<5951240, 2713340>>
        /\ keys[1].x_mm = 20984
        /\ keys[1].y_mm = 3848

\* C8, amended: the line "614.966,251.492 575.282,291.176" yields center
\* (595.124, 271.334), x_mm = 209.82 and y_mm = 38.47.
C8_ExampleLine ==
    LineAParsed =>
        /\ EntryCenter(keys[1]) = <<5951240, 2713340>>
        /\ keys[1].x_mm = 20982
        /\ keys[1].y_mm = 3847

C8_Witness == LineAParsed /\ pc = "mx" /\ i = 2

\* C9, as stated: for every entry emitted for the blocks of the source,
\* x_mm / SCALE and Y_ORIGIN - y_mm / SCALE are within 0.01 of svg_x, svg_y.
C9_Original ==
    (IsReference /\ stdout # << >>) =>
        \A e \in Seq2Set(stdout[1].mx_keys) \cup Seq2Set(stdout[1].choc_keys) :
            RoundTrip(e, 100)

\* C9, amended: for every entry emitted for the blocks of the source,
\* x_mm / SCALE and Y_ORIGIN - y_mm / SCALE are within 0.015 of svg_x, svg_y.
C9_RoundTrip ==
    (IsReference /\ stdout # << >>) =>
        \A e \in Seq2Set(stdout[1].mx_keys) \cup Seq2Set(stdout[1].choc_keys) :
            RoundTrip(e, 150)

\* The report of the blocks of the source, with an entry whose round trip
\* is more than 0.01 away.
C9_Witness ==
    /\ IsReference
    /\ pc = "done"
    /\ Len(stdout[1].mx_keys) = 50
    /\ \E e \in Seq2Set(stdout[1].mx_keys) : ~RoundTrip(e, 100)

\* C10: a line gives an entry exactly when it has two tokens of two
\* numeric substrings each; every other line whose substrings are all
\* numeric is skipped silently; and a run is aborted only on a line with a
\* substring that is not a number.
C10_OnlyThreeOutcomes ==
    [][ \A l \in CurrentLine :
            /\ ValidLine(l) <=> Len(keys') + Len(chocs') = Len(keys) + Len(chocs) + 1
            /\ (AllNumeric(l) /\ ~ValidLine(l)) =>
                   /\ keys' = keys /\ chocs' = chocs
                   /\ exc' = "" /\ pc' # "aborted"
            /\ pc' = "aborted" => ~AllNumeric(l)
      ]_vars

====
